---- MODULE Spec2Model ----
(***************************************************************************)
(* Model of deephyper's DiscreteParameter                                  *)
(* (search/models/parameters/discreteparameter.py).                        *)
(*                                                                         *)
(* A parameter object is a record whose fields are the attributes the      *)
(* constructor assigns; attribute lookup is membership in the record's     *)
(* DOMAIN.  Field values are Python ints (exact arithmetic); on the small  *)
(* integers used here the float() casts of max_n are exact as well, so     *)
(* floor((high - low) / step_size) is integer floor division.              *)
(***************************************************************************)
EXTENDS Integers, Sequences, FiniteSets, TLC

VARIABLES self, pc, values, value_cur, ret

vars == <<self, pc, values, value_cur, ret>>

(* ---------------------------- bounds ----------------------------------- *)
\* largest bound magnitude of the enumerated parameter grid
MaxHigh == 4
\* largest step size of the enumerated parameter grid
MaxStep == 3
\* largest index passed to map_to_interval
MaxN == 8
\* number of loop iterations of interval_list that are followed
MaxIter == 12

(* ------------------------- enumerated types ---------------------------- *)
ARITHMETIC == "ARITHMETIC"
GEOMETRIC == "GEOMETRIC"
StepType == {ARITHMETIC, GEOMETRIC}

DISCRETE == "DISCRETE"
ParameterType == {"DISCRETE", "CONTINUOUS", "CATEGORICAL"}

DEFAULT == "DEFAULT"
DiscreteRepresentationType == {"DEFAULT", "ONE_HOT"}

\* a value that is a member of none of the enumerated types
NotAnEnum == "bogus"

(* ----------------------------- outcomes -------------------------------- *)
\* The outcome of a call: a returned number, a returned list, a returned
\* None, a raised exception, or a loop that never leaves its body.
Returned(v) == [kind |-> "return", exc |-> "", msg |-> "", val |-> v, list |-> <<>>]
ReturnedList(l) == [kind |-> "return_list", exc |-> "", msg |-> "", val |-> 0, list |-> l]
ReturnedNone == [kind |-> "return_none", exc |-> "", msg |-> "", val |-> 0, list |-> <<>>]
Raised(e, m) == [kind |-> "raise", exc |-> e, msg |-> m, val |-> 0, list |-> <<>>]
Diverges == [kind |-> "diverges", exc |-> "", msg |-> "", val |-> 0, list |-> <<>>]

\* the record of the latest call: operation, argument, outcome
Call(op, n, out) == [op |-> op, n |-> n, out |-> out]
NoCall == Call("none", 0, ReturnedNone)

(* ---------------------------- construction ----------------------------- *)
\* __init__: assigns the six fields, then the base constructor assigns
\* name and type.
DiscreteParameter(name, low, high, step_type, step_size, repr_type, is_negative) ==
    [name |-> name, type |-> DISCRETE,
     low |-> low, high |-> high,
     step_type |-> step_type, step_size |-> step_size,
     repr_type |-> repr_type, is_negative |-> is_negative]

\* Python attribute lookup: self.a exists iff __init__ assigned it
HasAttr(obj, a) == a \in DOMAIN obj

(* ----------------------------- arithmetic ------------------------------ *)
\* int ** int for a non-negative exponent
RECURSIVE Pow(_, _)
Pow(b, e) == CASE e = 0 -> 1
               [] e > 0 -> b * Pow(b, e - 1)

\* floor(a / b) for b # 0
FloorDiv(a, b) == IF b > 0 THEN a \div b ELSE (-a) \div (-b)

(* ---------------------------- interval_list ---------------------------- *)
\* the loop condition with the upper bound excluded
LoopCond_exclusive(p, cur) == cur < p.high

\* the loop condition, line 71
LoopCond(p, cur) == cur <= p.high

\* the element appended by one iteration, lines 73-76
LoopAppend(p, cur) == IF p.is_negative THEN -cur ELSE cur

\* the stepped value after one iteration, lines 78-81
LoopStep(p, cur) ==
    IF p.step_type = ARITHMETIC THEN cur + p.step_size
    ELSE IF p.step_type = GEOMETRIC THEN cur * p.step_size
    ELSE cur

RECURSIVE IntervalLoop(_, _, _)
IntervalLoop(p, vals, cur) ==
    IF LoopCond(p, cur)
    THEN IF Len(vals) >= MaxIter THEN Diverges
         ELSE IntervalLoop(p, Append(vals, LoopAppend(p, cur)), LoopStep(p, cur))
    ELSE ReturnedList(vals)

\* interval_list() as a function of the parameter
interval_list(p) == IntervalLoop(p, <<>>, p.low)

(* --------------------------- map_to_interval --------------------------- *)
\* lines 94-97
abs_val(p, n) ==
    IF p.step_type = ARITHMETIC THEN p.low + (p.step_size * n)
    ELSE p.low * Pow(p.step_size, n)

map_to_interval(p, n) ==
    IF p.step_type = GEOMETRIC /\ p.step_size = 0 /\ n < 0
    THEN Raised("ZeroDivisionError", "")
    ELSE IF ~HasAttr(p, "is_neg") THEN Raised("AttributeError", "is_neg")
    ELSE IF p.step_type \notin {ARITHMETIC, GEOMETRIC}
         THEN Raised("UnboundLocalError", "abs_val")
    ELSE IF p.is_neg THEN Returned(-abs_val(p, n))
    ELSE Returned(abs_val(p, n))

(* -------------------------------- max_n -------------------------------- *)
max_n(p) ==
    LET low == p.low
        high == p.high
        step_size == p.step_size
    IN  IF p.step_type = ARITHMETIC
        THEN IF step_size = 0 THEN Raised("ZeroDivisionError", "")
             ELSE LET n == FloorDiv(high - low, step_size)
                  IN  IF (n * step_size + low) <= (high - step_size)
                      THEN Returned(n + 1)
                      ELSE Returned(n)
        ELSE IF p.step_type = GEOMETRIC
        THEN Raised("NameError", "lower_bound")
        ELSE ReturnedNone

(* -------------------------------- debug -------------------------------- *)
\* the base class validation: name and type are well-formed
Parameter_debug(p) ==
    IF p.name = "" THEN Raised("Warning", "name")
    ELSE IF p.type \notin ParameterType THEN Raised("Warning", "type")
    ELSE ReturnedNone

\* line 156
NegativeLowerBound(p) == p.low < 0

\* the bounds check letting equal bounds through
BoundsOutOfOrder_strict(p) == p.low > p.high

\* line 161
BoundsOutOfOrder(p) == p.low >= p.high

\* the step size check letting a step size of 0 through
StepSizeNotPositive_strict(p) == p.step_size < 0

\* line 166
StepSizeNotPositive(p) == p.step_size <= 0

\* the geometric step check letting a step size of 1 through
GeometricStepTooSmall_strict(p) == p.step_type = GEOMETRIC /\ p.step_size < 1

\* lines 170-171
GeometricStepTooSmall(p) == p.step_type = GEOMETRIC /\ p.step_size <= 1

\* line 179
GeometricZeroBound(p) == p.low = 0 \/ p.high = 0

\* lines 182-183
GeometricSignsDiffer(p) == (p.low < 0 /\ p.high > 0) \/ (p.low > 0 /\ p.high < 0)

\* the checks run in the order of the source; the first violated one raises
debug(p) ==
    IF Parameter_debug(p).kind = "raise" THEN Parameter_debug(p)
    ELSE IF p.step_type \notin StepType
         THEN Raised("Warning", "unrecognized step type")
    ELSE IF p.repr_type \notin DiscreteRepresentationType
         THEN Raised("Warning", "unrecognized representation type")
    ELSE IF NegativeLowerBound(p) THEN Raised("Warning", "negative lower bound")
    ELSE IF BoundsOutOfOrder(p)
         THEN Raised("Warning", "lower bound exceeds or is equal to upper bound")
    ELSE IF StepSizeNotPositive(p)
         THEN Raised("Warning", "step size less than or equal to 0")
    ELSE IF GeometricStepTooSmall(p)
         THEN Raised("Warning", "geometric step type and step size <= 1")
    ELSE IF p.step_type = GEOMETRIC /\ GeometricZeroBound(p)
         THEN Raised("Warning", "geometric step type and a bound of 0")
    ELSE IF p.step_type = GEOMETRIC /\ GeometricSignsDiffer(p)
         THEN Raised("Warning", "geometric step type and bounds have different sign")
    ELSE ReturnedNone

\* debug() returns without raising
DebugOK(p) == debug(p).kind = "return_none"

(* --------------------------- the parameters ---------------------------- *)
\* the scenarios named by the documentation
Batch == DiscreteParameter("batch", 1, 128, GEOMETRIC, 2, DEFAULT, FALSE)
NegativeLow == DiscreteParameter("batch", -1, 10, ARITHMETIC, 1, DEFAULT, FALSE)
InvertedBounds == DiscreteParameter("batch", 5, 3, ARITHMETIC, 1, DEFAULT, FALSE)
GeometricSignMismatch == DiscreteParameter("batch", -4, 8, GEOMETRIC, 2, DEFAULT, FALSE)
GeometricZeroLow == DiscreteParameter("batch", 0, 8, GEOMETRIC, 2, DEFAULT, FALSE)

Scenarios == {Batch, NegativeLow, InvertedBounds, GeometricSignMismatch, GeometricZeroLow}

\* every way of calling the constructor with small arguments
Grid ==
    { DiscreteParameter(nm, lo, hi, st, sz, rt, neg) :
        nm \in {"batch", ""}, lo \in -1..MaxHigh, hi \in -1..MaxHigh,
        st \in StepType \cup {NotAnEnum}, sz \in -1..MaxStep,
        rt \in {DEFAULT, NotAnEnum}, neg \in BOOLEAN }

Args == -1..MaxN

(* ------------------------------ the machine ---------------------------- *)
Init ==
    /\ self \in Grid \cup Scenarios
    /\ pc = "idle"
    /\ values = <<>>
    /\ value_cur = 0
    /\ ret = NoCall

\* interval_list, lines 62-67: unpack the fields, start at low
interval_list_call ==
    /\ pc = "idle"
    /\ pc' = "loop"
    /\ values' = <<>>
    /\ value_cur' = self.low
    /\ ret' = NoCall
    /\ UNCHANGED self

\* one iteration of the loop that steps the field low in place
interval_list_step_inplace ==
    /\ pc = "loop"
    /\ LoopCond(self, value_cur)
    /\ Len(values) < MaxIter
    /\ values' = Append(values, LoopAppend(self, value_cur))
    /\ value_cur' = LoopStep(self, value_cur)
    /\ self' = [self EXCEPT !.low = LoopStep(self, value_cur)]
    /\ UNCHANGED <<pc, ret>>

\* interval_list, lines 71-81: one iteration of the loop
interval_list_step ==
    /\ pc = "loop"
    /\ LoopCond(self, value_cur)
    /\ Len(values) < MaxIter
    /\ values' = Append(values, LoopAppend(self, value_cur))
    /\ value_cur' = LoopStep(self, value_cur)
    /\ UNCHANGED <<self, pc, ret>>

\* interval_list, line 83: the loop condition fails, the list is returned
interval_list_return ==
    /\ pc = "loop"
    /\ ~LoopCond(self, value_cur)
    /\ ret' = Call("interval_list", 0, ReturnedList(values))
    /\ pc' = "idle"
    /\ values' = <<>>
    /\ value_cur' = 0
    /\ UNCHANGED self

map_to_interval_call(n) ==
    /\ pc = "idle"
    /\ ret' = Call("map_to_interval", n, map_to_interval(self, n))
    /\ UNCHANGED <<self, pc, values, value_cur>>

max_n_call ==
    /\ pc = "idle"
    /\ ret' = Call("max_n", 0, max_n(self))
    /\ UNCHANGED <<self, pc, values, value_cur>>

debug_call ==
    /\ pc = "idle"
    /\ ret' = Call("debug", 0, debug(self))
    /\ UNCHANGED <<self, pc, values, value_cur>>

Next ==
    \/ interval_list_call
    \/ interval_list_step
    \/ interval_list_return
    \/ \E n \in Args : map_to_interval_call(n)
    \/ max_n_call
    \/ debug_call

Spec == Init /\ [][Next]_vars

\* a running loop keeps running: the interpreter executes the next iteration
FairSpec == Spec /\ WF_vars(interval_list_step) /\ WF_vars(interval_list_return)

(* ------------------------------- claims -------------------------------- *)
Abs(x) == IF x < 0 THEN -x ELSE x

\* the n-th unsigned magnitude of the interval: low + s*n or low * s^n
Term(p, n) ==
    IF p.step_type = ARITHMETIC THEN p.low + p.step_size * n
    ELSE p.low * Pow(p.step_size, n)

\* list.index: the first position (0-indexed) holding v, -1 when absent
FirstIndex(l, v) ==
    IF \E i \in 1..Len(l) : l[i] = v
    THEN (CHOOSE i \in 1..Len(l) : l[i] = v /\ \A j \in 1..(i - 1) : l[j] # v) - 1
    ELSE -1

\* the latest call was map_to_interval(n) with 0 <= n <= max_n()
InRangeCall ==
    /\ ret.op = "map_to_interval"
    /\ max_n(self).kind = "return"
    /\ 0 <= ret.n /\ ret.n <= max_n(self).val

\* the parameter that differs from p only in is_negative
Flip(p) == [p EXCEPT !.is_negative = ~p.is_negative]

\* C1: on a valid parameter, map_to_interval(n) for 0 <= n <= max_n()
\* returns the element at index n of interval_list().
C1_MapEqualsList ==
    (DebugOK(self) /\ InRangeCall) =>
        /\ interval_list(self).kind = "return_list"
        /\ ret.n < Len(interval_list(self).list)
        /\ ret.out = Returned(interval_list(self).list[ret.n + 1])

\* C2: on a valid parameter, max_n() returns the largest n >= 0 whose
\* unsigned magnitude does not exceed high.
C2_MaxNIsLargest ==
    (DebugOK(self) /\ ret.op = "max_n") =>
        /\ ret.out.kind = "return"
        /\ ret.out.val >= 0
        /\ Term(self, ret.out.val) <= self.high
        /\ Term(self, ret.out.val + 1) > self.high

\* C3: on a valid parameter, interval_list() has exactly max_n() + 1
\* elements.
C3_ListLength ==
    (DebugOK(self) /\ ret.op = "interval_list") =>
        /\ max_n(self).kind = "return"
        /\ Len(ret.out.list) = max_n(self).val + 1

\* C4: on a valid parameter, interval_list() returns, in order, exactly the
\* magnitudes low, low+s, low+2s, ... (arithmetic) or low, low*s, low*s^2,
\* ... (geometric) that do not exceed high; the first magnitude is low and
\* consecutive magnitudes differ by s (arithmetic) or have ratio s
\* (geometric).
C4_ListValues ==
    (DebugOK(self) /\ ret.op = "interval_list") =>
        LET l == ret.out.list
        IN  /\ ret.out.kind = "return_list"
            /\ Len(l) >= 1
            /\ Abs(l[1]) = self.low
            /\ \A i \in 1..Len(l) : Abs(l[i]) = Term(self, i - 1)
            /\ \A i \in 1..Len(l) :
                 l[i] = IF self.is_negative THEN -Term(self, i - 1) ELSE Term(self, i - 1)
            /\ \A k \in 0..MaxIter : (Term(self, k) <= self.high) <=> (k < Len(l))
            /\ \A i \in 1..(Len(l) - 1) :
                 IF self.step_type = ARITHMETIC
                 THEN Abs(l[i + 1]) - Abs(l[i]) = self.step_size
                 ELSE Abs(l[i + 1]) = self.step_size * Abs(l[i])

C4_Witness ==
    /\ DebugOK(self) /\ ret.op = "interval_list"
    /\ self.step_type = GEOMETRIC /\ self.is_negative
    /\ Len(ret.out.list) >= 3

\* C5: two valid parameters that differ only in is_negative have the same
\* max_n() and the same interval_list() length, and every value of
\* interval_list() and of map_to_interval(n), 0 <= n <= max_n(), on one is
\* the negation of the corresponding value on the other.
C5_SignFlip ==
    (DebugOK(self) /\ ret.op \in {"interval_list", "max_n", "map_to_interval"}) =>
        LET q == Flip(self)
            l == interval_list(self)
            m == interval_list(q)
        IN  /\ max_n(self).kind = "return"
            /\ max_n(q) = max_n(self)
            /\ l.kind = "return_list" /\ m.kind = "return_list"
            /\ Len(l.list) = Len(m.list)
            /\ \A i \in 1..Len(l.list) : m.list[i] = -l.list[i]
            /\ \A n \in 0..max_n(self).val :
                 /\ map_to_interval(self, n).kind = "return"
                 /\ map_to_interval(q, n).kind = "return"
                 /\ map_to_interval(q, n).val = -map_to_interval(self, n).val

\* the invariants debug() validates
ViolatesInvariants(p) ==
    \/ p.step_type \notin StepType
    \/ p.repr_type \notin DiscreteRepresentationType
    \/ ~(p.low >= 0)
    \/ ~(p.low < p.high)
    \/ ~(p.step_size > 0)
    \/ (p.step_type = GEOMETRIC /\ ~(p.step_size > 1))
    \/ (p.step_type = GEOMETRIC
        /\ (p.low = 0 \/ p.high = 0 \/ (p.low < 0) # (p.high < 0)))

\* the invalid parameters the documentation lists
ListedInvalid(p) ==
    \/ p \in {NegativeLow, InvertedBounds, GeometricSignMismatch, GeometricZeroLow}
    \/ p.step_size = 0
    \/ (p.step_type = GEOMETRIC /\ p.step_size = 1)

\* C6: debug() raises for every parameter that violates at least one of
\* the validated invariants, in particular for the listed invalid
\* parameters.
C6_DebugRaises ==
    (ret.op = "debug" /\ (ViolatesInvariants(self) \/ ListedInvalid(self))) =>
        ret.out.kind = "raise"

C6_Witness ==
    /\ ret.op = "debug" /\ ret.out.kind = "raise"
    /\ self.name # "" /\ self.step_type = ARITHMETIC
    /\ self.repr_type = DEFAULT /\ self.low >= 0 /\ self.low < self.high
    /\ self.step_size = 0

\* C7: map_to_interval(n) with n < 0 or n > max_n() on a valid parameter is
\* signalled as a DomainError and never returns a number.
C7_OutOfRangeSignalled ==
    (/\ DebugOK(self) /\ ret.op = "map_to_interval"
     /\ \/ ret.n < 0
        \/ (max_n(self).kind = "return" /\ ret.n > max_n(self).val)) =>
        /\ ret.out.kind = "raise"
        /\ ret.out.exc = "DomainError"

\* C8: for DiscreteParameter("batch", 1, 128, GEOMETRIC, 2), max_n()
\* returns 7, interval_list() returns [1,2,4,8,16,32,64,128] and
\* map_to_interval(3) returns 8.
C8_BatchScenario ==
    (self = Batch) =>
        /\ (ret.op = "max_n") => ret.out = Returned(7)
        /\ (ret.op = "interval_list") =>
              ret.out = ReturnedList(<<1, 2, 4, 8, 16, 32, 64, 128>>)
        /\ (ret.op = "map_to_interval" /\ ret.n = 3) => ret.out = Returned(8)

\* C9: on a valid parameter and for 0 <= n <= max_n(), the first index at
\* which map_to_interval(n) occurs in interval_list() is n.
C9_RoundTrip ==
    (DebugOK(self) /\ InRangeCall) =>
        /\ ret.out.kind = "return"
        /\ interval_list(self).kind = "return_list"
        /\ FirstIndex(interval_list(self).list, ret.out.val) = ret.n

\* C10: on a parameter that debug() accepts, the loop of interval_list()
\* terminates: value_cur strictly increases on every iteration, the loop is
\* left only once value_cur exceeds high, and the list is then returned.
C10_LoopTerminates ==
    /\ [][(DebugOK(self) /\ pc = "loop" /\ pc' = "loop") => value_cur' > value_cur]_vars
    /\ [][(DebugOK(self) /\ pc = "loop" /\ pc' = "idle") =>
            (value_cur > self.high /\ ret'.out = ReturnedList(values))]_vars
    /\ (DebugOK(self) /\ pc = "loop") ~> (pc = "idle" /\ ret.op = "interval_list")

C10_Witness ==
    /\ DebugOK(self) /\ pc = "idle" /\ ret.op = "interval_list"
    /\ Len(ret.out.list) = MaxHigh + 1

\* C11: no call to interval_list(), map_to_interval(n), max_n() or debug(),
\* returning or raising, changes a field of the parameter; every completed
\* interval_list() call therefore returns the one sequence the fields
\* determine.
C11_FieldsNeverChange ==
    /\ [][self' = self]_vars
    /\ [](DOMAIN self = {"name", "type", "low", "high", "step_type",
                         "step_size", "repr_type", "is_negative"})
    /\ [](ret.op = "interval_list" => ret.out = interval_list(self))

C11_Witness ==
    /\ ret.op = "interval_list" /\ pc = "idle"
    /\ ~DebugOK(self)
    /\ Len(ret.out.list) >= 2

\* control of debug() reaches the GEOMETRIC bound checks of lines 178-185
ReachesGeometricChecks(p) ==
    /\ p.step_type = GEOMETRIC
    /\ \/ DebugOK(p)
       \/ debug(p).msg \in {"geometric step type and a bound of 0",
                            "geometric step type and bounds have different sign"}

\* C12: the checks of debug() run in a fixed order and the first violated
\* one raises: when control reaches the GEOMETRIC bound checks, 0 <= low <
\* high and step_size > 1 hold, so the only GEOMETRIC bound failure raised
\* is 'bound of 0' with low = 0; high = 0 and 'bounds have different sign'
\* are never raised, and low=-4, high=8 is reported as a negative lower
\* bound.
C12_GeometricChecksOrder ==
    (ret.op = "debug") =>
        /\ ReachesGeometricChecks(self) =>
              (0 <= self.low /\ self.low < self.high /\ self.step_size > 1)
        /\ (ret.out.msg = "geometric step type and a bound of 0") =>
              (self.low = 0 /\ self.high # 0)
        /\ ret.out.msg # "geometric step type and bounds have different sign"
        /\ (self = GeometricSignMismatch) =>
              ret.out = Raised("Warning", "negative lower bound")

C12_Witness ==
    /\ ret.op = "debug"
    /\ self = GeometricZeroLow
    /\ ret.out = Raised("Warning", "geometric step type and a bound of 0")

====
